---- MODULE Spec2Model ----
(***************************************************************************)
(* Model of the guideline-pack manager of Continuum                        *)
(* (src/guidelines_manager.py): the local store, the catalog fetcher, the  *)
(* update planner, the installer and the builtin seeding.                  *)
(*                                                                         *)
(* Text is modelled as a sequence of one-character strings, so that        *)
(* lower(), strip(), split(".") and the digit filter of _parse_version act *)
(* on characters as the code does.  File contents ("bytes") are records    *)
(*   [name, t, f, a]                                                       *)
(* name identifies the byte string, t/f/a is what json.loads makes of it:  *)
(* t = "bad" (no JSON), "obj" (object with fields f) or "arr" (array a).   *)
(***************************************************************************)
EXTENDS Integers, Sequences, FiniteSets, TLC

(***************************************************************************)
(* Bounds of the model.                                                    *)
(***************************************************************************)
MaxPacks == 2          \* longest catalog "packs" array
MaxFields == 3         \* most numeric fields of a version given a suffix

(***************************************************************************)
(* Characters and strings.                                                 *)
(***************************************************************************)
Digits == <<"0", "1", "2", "3", "4", "5", "6", "7", "8", "9">>

\* the characters int() accepts
IsDecimal(c) == \E i \in 1..10 : Digits[i] = c

DigitVal(c) == (CHOOSE i \in 1..10 : Digits[i] = c) - 1

\* str.isdigit(): true of the decimal digits and also of digit-like
\* characters such as SUPERSCRIPT TWO, which int() rejects
IsDigitChar(c) == IsDecimal(c) \/ c = "sup2"

IsSpace(c) == c \in {" ", "\t", "\n"}

LowerChar(c) ==
  CASE c = "A" -> "a" [] c = "B" -> "b" [] c = "C" -> "c" [] c = "D" -> "d"
    [] c = "E" -> "e" [] c = "F" -> "f" [] c = "H" -> "h" [] c = "T" -> "t"
    [] c = "P" -> "p" [] c = "S" -> "s" [] OTHER -> c

\* str.lower()
Lower(s) == [i \in 1..Len(s) |-> LowerChar(s[i])]

\* str.startswith(prefix)
StartsWith(s, prefix) ==
  /\ Len(s) >= Len(prefix)
  /\ \A i \in 1..Len(prefix) : s[i] = prefix[i]

RECURSIVE LStrip(_)
LStrip(s) == IF s # <<>> /\ IsSpace(Head(s)) THEN LStrip(Tail(s)) ELSE s

RECURSIVE RStrip(_)
RStrip(s) ==
  IF s # <<>> /\ IsSpace(s[Len(s)]) THEN RStrip(SubSeq(s, 1, Len(s) - 1)) ELSE s

\* str.strip()
Strip(s) == RStrip(LStrip(s))

\* str.split("."): the fields between the dots; "" splits into one empty field
RECURSIVE SplitDot(_)
SplitDot(s) ==
  IF \A i \in 1..Len(s) : s[i] # "."
  THEN <<s>>
  ELSE LET k == CHOOSE i \in 1..Len(s) :
                  s[i] = "." /\ \A j \in 1..(i - 1) : s[j] # "."
       IN <<SubSeq(s, 1, k - 1)>> \o SplitDot(SubSeq(s, k + 1, Len(s)))

\* "".join([c for c in p if c.isdigit()])
OnlyDigits(p) == SelectSeq(p, IsDigitChar)

\* int(digits or "0")
RECURSIVE DecimalValue(_)
DecimalValue(d) ==
  IF d = <<>> THEN 0
  ELSE 10 * DecimalValue(SubSeq(d, 1, Len(d) - 1)) + DigitVal(d[Len(d)])

\* a conversion that hands the whole field to int(): 0 unless all is digits
FieldToIntStrict(p) ==
  IF p # <<>> /\ \A i \in 1..Len(p) : IsDecimal(p[i])
  THEN DecimalValue(p)
  ELSE 0

\* the body of the loop: filter the digits, int(digits or "0"); a ValueError
\* (a digit int() rejects) is caught and gives 0
FieldToInt(p) ==
  LET digits == OnlyDigits(p)
  IN IF digits = <<>> THEN 0
     ELSE IF \A i \in 1..Len(digits) : IsDecimal(digits[i])
          THEN DecimalValue(digits)
          ELSE 0

\* Python's None where a str is expected
None == <<"<None>">>

\* a parse that loops over parts instead of parts[:3]
ParseVersionUncapped(v) ==
  LET text  == IF v = None \/ v = <<>> THEN <<"0">> ELSE v
      parts == SplitDot(Strip(text))
      nums  == [i \in 1..Len(parts) |-> FieldToInt(parts[i])]
  IN [i \in 1..(IF Len(nums) < 3 THEN 3 ELSE Len(nums)) |->
        IF i <= Len(nums) THEN nums[i] ELSE 0]

\* _parse_version(v)
ParseVersion(v) ==
  LET text  == IF v = None \/ v = <<>> THEN <<"0">> ELSE v
      parts == SplitDot(Strip(text))
      first == SubSeq(parts, 1, IF Len(parts) < 3 THEN Len(parts) ELSE 3)
      nums  == [i \in 1..Len(first) |-> FieldToInt(first[i])]
  IN [i \in 1..3 |-> IF i <= Len(nums) THEN nums[i] ELSE 0]

\* tuple comparison a > b of Python, on triplets
TupleGreater(a, b) ==
  \E i \in 1..3 : a[i] > b[i] /\ \A j \in 1..(i - 1) : a[j] = b[j]

\* str(n) of a non-negative int
RECURSIVE Decimal(_)
Decimal(n) ==
  IF n < 10 THEN <<Digits[n + 1]>>
  ELSE Decimal(n \div 10) \o <<Digits[(n % 10) + 1]>>

(***************************************************************************)
(* JSON values: a string is [t |-> "str", v |-> text], a number            *)
(* [t |-> "num", v |-> n].                                                 *)
(***************************************************************************)
JStr(s) == [t |-> "str", v |-> s]
JNum(n) == [t |-> "num", v |-> n]

\* str(x) of a JSON scalar
Str(j) == IF j.t = "num" THEN Decimal(j.v) ELSE j.v

V000 == <<"0", ".", "0", ".", "0">>
V100 == <<"1", ".", "0", ".", "0">>
V110 == <<"1", ".", "1", ".", "0">>
V110beta == <<"1", ".", "1", ".", "0", "-", "b">>
V2 == <<"2">>

(***************************************************************************)
(* File contents.                                                          *)
(***************************************************************************)
NoFields == [x \in {} |-> 0]

Doc(name, t, f, a) == [name |-> name, t |-> t, f |-> f, a |-> a]

M1     == Doc("M1", "obj", [version |-> JStr(V100)], <<>>)
M2     == Doc("M2", "obj", [version |-> JStr(V110)], <<>>)
MNoVer == Doc("MNoVer", "obj", NoFields, <<>>)
MNum   == Doc("MNum", "obj", [version |-> JNum(2)], <<>>)
MArr   == Doc("MArr", "arr", NoFields, <<>>)
MBad   == Doc("MBad", "bad", NoFields, <<>>)
R1     == Doc("R1", "arr", NoFields, <<"rule1">>)
R2     == Doc("R2", "arr", NoFields, <<"rule1", "rule2">>)
\* a file of length 0, as left by open(mode="wb") before the write
Empty  == Doc("", "bad", NoFields, <<>>)

\* no file at that path
Absent == Doc("<absent>", "bad", NoFields, <<>>)
\* the GET failed (URLError, timeout, HTTP error)
NetFail == Doc("<neterr>", "bad", NoFields, <<>>)

\* _sha256_bytes(b): lowercase hex, one digest per byte string
Sha256(b) ==
  CASE b.name = "M1" -> <<"a", "1">>
    [] b.name = "M2" -> <<"b", "2">>
    [] b.name = "R1" -> <<"c", "3">>
    [] b.name = "R2" -> <<"d", "4">>
    [] b.name = "MBad" -> <<"e", "5">>
    [] b.name = "MNoVer" -> <<"f", "6">>
    [] b.name = "MNum" -> <<"a", "7">>
    [] b.name = "MArr" -> <<"b", "8">>
    [] b.name = "" -> <<"e", "3">>
    [] OTHER -> <<"0", "0">>

\* str.upper() of the hex digests used here
UpperHex(s) ==
  [i \in 1..Len(s) |->
     CASE s[i] = "a" -> "A" [] s[i] = "b" -> "B" [] s[i] = "c" -> "C"
       [] s[i] = "d" -> "D" [] s[i] = "e" -> "E" [] s[i] = "f" -> "F"
       [] OTHER -> s[i]]

(***************************************************************************)
(* The store: guidelines_dir, one entry per name under it.                 *)
(***************************************************************************)
Ids == {"A", "B"}

NoEntry   == [kind |-> "none", manifest |-> Absent, rules |-> Absent]
FileEntry == [kind |-> "file", manifest |-> Absent, rules |-> Absent]
Dir(m, r) == [kind |-> "dir", manifest |-> m, rules |-> r]

(***************************************************************************)
(* Errors raised to the caller.                                            *)
(***************************************************************************)
Error(kind, what, id) == [kind |-> kind, what |-> what, id |-> id]
NoErr == Error("none", "", "")
InsecureTransport == Error("ValueError", "Refusing non-HTTPS URL", "")
FetchFailed == Error("URLError", "", "")
Interrupted == Error("Interrupted", "", "")

(***************************************************************************)
(* URLs.                                                                   *)
(***************************************************************************)
HttpsPrefix == <<"h", "t", "t", "p", "s", ":", "/", "/">>

UrlM      == HttpsPrefix \o <<"m">>
UrlR      == HttpsPrefix \o <<"r">>
UrlIndex  == HttpsPrefix \o <<"i">>
UrlUpperM == <<"H", "T", "T", "P", "S", ":", "/", "/", "m">>
HttpM     == <<"h", "t", "t", "p", ":", "/", "/", "m">>
HttpR     == <<"h", "t", "t", "p", ":", "/", "/", "r">>
HttpIndex == <<"h", "t", "t", "p", ":", "/", "/", "i">>
FtpIndex  == <<"f", "t", "p", ":", "/", "/", "i">>
SpaceIndex == <<" ">> \o UrlIndex

\* a check of the prefix "http" only
HttpOrHttps(url) == StartsWith(Lower(url), <<"h", "t", "t", "p">>)

\* _https_only(url) does not raise
HttpsOnly(url) == StartsWith(Lower(url), HttpsPrefix)

(***************************************************************************)
(* Local store: list_installed and read_pack_rules.                        *)
(***************************************************************************)
\* a scan that takes every directory with a manifest.json for a pack
HasManifest(e) == e.kind = "dir" /\ e.manifest # Absent

\* the entry is a directory holding a manifest.json that json.loads accepts
\* and that has .get (an object); anything else is skipped
IsListed(e) ==
  /\ e.kind = "dir"
  /\ e.manifest # Absent
  /\ e.manifest.t = "obj"

\* str(j.get("version", "0.0.0"))
ManifestVersion(m) ==
  IF "version" \in DOMAIN m.f THEN Str(m.f.version) ELSE V000

\* list_installed(): dict id -> version
ListInstalled(st) ==
  [id \in {i \in Ids : IsListed(st[i])} |-> ManifestVersion(st[id].manifest)]

(***************************************************************************)
(* Catalog fetcher: fetch_index.                                           *)
(***************************************************************************)
\* the keys read with p[...], in the order PackInfo(...) evaluates them
RequiredKeys ==
  <<"id", "manifest_url", "rules_url", "sha256_manifest", "sha256_rules">>

\* the KeyError PackInfo(...) raises on entry p, "" when it raises none
MissingKey(p) ==
  IF \A i \in 1..Len(RequiredKeys) : RequiredKeys[i] \in DOMAIN p
  THEN ""
  ELSE RequiredKeys[CHOOSE i \in 1..Len(RequiredKeys) :
                      /\ RequiredKeys[i] \notin DOMAIN p
                      /\ \A j \in 1..(i - 1) : RequiredKeys[j] \in DOMAIN p]

\* PackInfo(id=str(p["id"]), title=str(p.get("title", p["id"])), ...)
PackInfoOf(p) ==
  [id              |-> Str(p.id),
   title           |-> Str(IF "title" \in DOMAIN p THEN p.title ELSE p.id),
   version         |-> IF "version" \in DOMAIN p THEN Str(p.version) ELSE V000,
   manifest_url    |-> Str(p.manifest_url),
   rules_url       |-> Str(p.rules_url),
   sha256_manifest |-> Lower(Str(p.sha256_manifest)),
   sha256_rules    |-> Lower(Str(p.sha256_rules))]

\* idx.get("packs", [])
PacksOf(idx) == IF "packs" \in DOMAIN idx.f THEN idx.f.packs ELSE <<>>

\* the result of one call, uniform over the operations
Outcome(st, err, ret, requests, resp) ==
  [store |-> st, err |-> err, ret |-> ret, requests |-> requests, resp |-> resp]

\* a fetch_index that sends the GET a second time when the first one fails
FetchIndexRetrying(st, index_url, r) ==
  IF ~HttpsOnly(index_url)
  THEN Outcome(st, InsecureTransport, <<>>, <<>>, <<>>)
  ELSE IF r = NetFail
  THEN Outcome(st, FetchFailed, <<>>, <<index_url, index_url>>, <<r, r>>)
  ELSE IF r.t = "bad"
  THEN Outcome(st, Error("JSONDecodeError", "", ""), <<>>, <<index_url>>, <<r>>)
  ELSE IF r.t # "obj"
  THEN Outcome(st, Error("AttributeError", "get", ""), <<>>, <<index_url>>, <<r>>)
  ELSE LET packs == PacksOf(r)
           bad   == {i \in 1..Len(packs) : MissingKey(packs[i]) # ""}
       IN IF bad # {}
          THEN LET k == CHOOSE i \in bad : \A j \in bad : i <= j
               IN Outcome(st, Error("KeyError", MissingKey(packs[k]), ""),
                          <<>>, <<index_url>>, <<r>>)
          ELSE Outcome(st, NoErr, [i \in 1..Len(packs) |-> PackInfoOf(packs[i])],
                       <<index_url>>, <<r>>)

\* a fetch_index that drops the entries it cannot read and keeps the rest
FetchIndexLenient(st, index_url, r) ==
  IF ~HttpsOnly(index_url)
  THEN Outcome(st, InsecureTransport, <<>>, <<>>, <<>>)
  ELSE IF r = NetFail
  THEN Outcome(st, FetchFailed, <<>>, <<index_url>>, <<r>>)
  ELSE IF r.t = "bad"
  THEN Outcome(st, Error("JSONDecodeError", "", ""), <<>>, <<index_url>>, <<r>>)
  ELSE IF r.t # "obj"
  THEN Outcome(st, Error("AttributeError", "get", ""), <<>>, <<index_url>>, <<r>>)
  ELSE LET packs == PacksOf(r)
           good(p) == MissingKey(p) = ""
           kept == SelectSeq(packs, good)
       IN Outcome(st, NoErr, [i \in 1..Len(kept) |-> PackInfoOf(kept[i])],
                  <<index_url>>, <<r>>)

\* fetch_index(index_url) when the network answers the GET with r
FetchIndex(st, index_url, r) ==
  IF ~HttpsOnly(index_url)
  THEN Outcome(st, InsecureTransport, <<>>, <<>>, <<>>)
  ELSE IF r = NetFail
  THEN Outcome(st, FetchFailed, <<>>, <<index_url>>, <<r>>)
  ELSE IF r.t = "bad"
  THEN Outcome(st, Error("JSONDecodeError", "", ""), <<>>, <<index_url>>, <<r>>)
  ELSE IF r.t # "obj"
  THEN Outcome(st, Error("AttributeError", "get", ""), <<>>, <<index_url>>, <<r>>)
  ELSE LET packs == PacksOf(r)
           bad   == {i \in 1..Len(packs) : MissingKey(packs[i]) # ""}
       IN IF bad # {}
          THEN LET k == CHOOSE i \in bad : \A j \in bad : i <= j
               IN Outcome(st, Error("KeyError", MissingKey(packs[k]), ""),
                          <<>>, <<index_url>>, <<r>>)
          ELSE Outcome(st, NoErr, [i \in 1..Len(packs) |-> PackInfoOf(packs[i])],
                       <<index_url>>, <<r>>)

(***************************************************************************)
(* Local store: read_pack_rules.                                           *)
(***************************************************************************)
\* what guidelines_dir / pack_id leads to
EntryAt(st, id) == IF id \in DOMAIN st THEN st[id] ELSE NoEntry

\* a read without the rules_path.exists() test
ReadPackRulesUnguarded(st, pack_id) ==
  LET rules == EntryAt(st, pack_id).rules
  IN IF EntryAt(st, pack_id).kind # "dir" \/ rules = Absent
     THEN Outcome(st, Error("FileNotFoundError", "", pack_id), <<>>, <<>>, <<>>)
     ELSE IF rules.t = "bad"
     THEN Outcome(st, Error("JSONDecodeError", "", ""), <<>>, <<>>, <<>>)
     ELSE Outcome(st, NoErr, IF rules.t = "arr" THEN rules.a ELSE rules.f,
                  <<>>, <<>>)

\* a read that makes the pack directory when it is not there
ReadPackRulesMkdir(st, pack_id) ==
  LET rules == EntryAt(st, pack_id).rules
      made  == IF pack_id \in DOMAIN st /\ st[pack_id].kind = "none"
               THEN [st EXCEPT ![pack_id] = Dir(Absent, Absent)]
               ELSE st
  IN IF EntryAt(st, pack_id).kind # "dir" \/ rules = Absent
     THEN Outcome(made, NoErr, <<>>, <<>>, <<>>)
     ELSE IF rules.t = "bad"
     THEN Outcome(st, Error("JSONDecodeError", "", ""), <<>>, <<>>, <<>>)
     ELSE Outcome(st, NoErr, IF rules.t = "arr" THEN rules.a ELSE rules.f,
                  <<>>, <<>>)

\* read_pack_rules(pack_id): [] when rules.json is not there, else what
\* json.loads makes of it, which raises on a file that is not JSON
ReadPackRules(st, pack_id) ==
  LET rules == EntryAt(st, pack_id).rules
  IN IF EntryAt(st, pack_id).kind # "dir" \/ rules = Absent
     THEN Outcome(st, NoErr, <<>>, <<>>, <<>>)
     ELSE IF rules.t = "bad"
     THEN Outcome(st, Error("JSONDecodeError", "", ""), <<>>, <<>>, <<>>)
     ELSE Outcome(st, NoErr, IF rules.t = "arr" THEN rules.a ELSE rules.f,
                  <<>>, <<>>)

(***************************************************************************)
(* Update planner: the loop of check_updates.                              *)
(***************************************************************************)
PackUpdate(p, v) == [pack |-> p, installed_version |-> v]

\* an iteration that also takes a remote version equal to the installed one
UpdatesForNotOlder(p, installed) ==
  IF p.id \notin DOMAIN installed
  THEN <<PackUpdate(p, None)>>
  ELSE IF ~TupleGreater(ParseVersion(installed[p.id]), ParseVersion(p.version))
       THEN <<PackUpdate(p, installed[p.id])>>
       ELSE <<>>

\* one iteration of the loop: the updates appended for descriptor p
UpdatesFor(p, installed) ==
  IF p.id \notin DOMAIN installed
  THEN <<PackUpdate(p, None)>>
  ELSE IF TupleGreater(ParseVersion(p.version), ParseVersion(installed[p.id]))
       THEN <<PackUpdate(p, installed[p.id])>>
       ELSE <<>>

\* a loop that puts each new update in front of the list
RECURSIVE PlanUpdatesPrepending(_, _)
PlanUpdatesPrepending(remote, installed) ==
  IF remote = <<>> THEN <<>>
  ELSE PlanUpdatesPrepending(Tail(remote), installed)
         \o UpdatesFor(Head(remote), installed)

\* the loop of check_updates over the remote descriptors, in order
RECURSIVE PlanUpdates(_, _)
PlanUpdates(remote, installed) ==
  IF remote = <<>> THEN <<>>
  ELSE UpdatesFor(Head(remote), installed) \o PlanUpdates(Tail(remote), installed)

\* check_updates(index_url)
CheckUpdates(st, index_url, r) ==
  LET f == FetchIndex(st, index_url, r)
  IN IF f.err # NoErr THEN f
     ELSE [f EXCEPT !.ret = PlanUpdates(f.ret, ListInstalled(st))]

(***************************************************************************)
(* Installer: install_pack.                                                *)
(***************************************************************************)
\* a verification that lets every manifest through
ManifestUnchecked(pack, mb) == TRUE

\* _sha256_bytes(manifest_bytes) != pack.sha256_manifest does not hold
ManifestVerified(pack, mb) == Sha256(mb) = pack.sha256_manifest

\* a verification that lets every rules document through
RulesUnchecked(pack, rb) == TRUE

\* _sha256_bytes(rules_bytes) != pack.sha256_rules does not hold
RulesVerified(pack, rb) == Sha256(rb) = pack.sha256_rules

\* the file-system steps of lines 175-177, in order; write_bytes opens the
\* file for writing (creating or truncating it) and then writes the bytes
WriteSteps ==
  <<"mkdir", "open_manifest", "write_manifest", "open_rules", "write_rules">>

\* steps that never touch manifest.json
WrittenRulesOnly(e, k, mb, rb) ==
  Dir(e.manifest, IF k >= 5 THEN rb ELSE IF k = 4 THEN Empty ELSE e.rules)

\* the pack directory after the first k >= 1 steps
Written(e, k, mb, rb) ==
  Dir(IF k >= 3 THEN mb ELSE IF k = 2 THEN Empty ELSE e.manifest,
      IF k >= 5 THEN rb ELSE IF k = 4 THEN Empty ELSE e.rules)

\* an install that clears guidelines_dir before it writes the pack
InstallPackWiping(st, pack, rm, rr, k) ==
  IF ~HttpsOnly(pack.manifest_url)
  THEN Outcome(st, InsecureTransport, <<>>, <<>>, <<>>)
  ELSE IF rm = NetFail
  THEN Outcome(st, FetchFailed, <<>>, <<pack.manifest_url>>, <<rm>>)
  ELSE IF ~HttpsOnly(pack.rules_url)
  THEN Outcome(st, InsecureTransport, <<>>, <<pack.manifest_url>>, <<rm>>)
  ELSE LET requests == <<pack.manifest_url, pack.rules_url>>
           resp     == <<rm, rr>>
       IN IF rr = NetFail
          THEN Outcome(st, FetchFailed, <<>>, requests, resp)
          ELSE IF ~ManifestVerified(pack, rm)
          THEN Outcome(st, Error("ValueError", "manifest SHA mismatch", pack.id),
                       <<>>, requests, resp)
          ELSE IF ~RulesVerified(pack, rr)
          THEN Outcome(st, Error("ValueError", "rules SHA mismatch", pack.id),
                       <<>>, requests, resp)
          ELSE IF k = 0
          THEN Outcome(st, Interrupted, <<>>, requests, resp)
          ELSE IF st[pack.id].kind = "file"
          THEN Outcome(st, Error("FileExistsError", "", pack.id),
                       <<>>, requests, resp)
          ELSE Outcome([id \in Ids |-> IF id = pack.id
                                       THEN Written(st[id], k, rm, rr)
                                       ELSE NoEntry],
                       IF k = Len(WriteSteps) THEN NoErr ELSE Interrupted,
                       <<>>, requests, resp)

\* install_pack(pack) when the network answers the GETs with rm and rr and
\* the process gets through k of the file-system steps (all of them unless
\* it is killed or a write fails)
InstallPack(st, pack, rm, rr, k) ==
  IF ~HttpsOnly(pack.manifest_url)
  THEN Outcome(st, InsecureTransport, <<>>, <<>>, <<>>)
  ELSE IF rm = NetFail
  THEN Outcome(st, FetchFailed, <<>>, <<pack.manifest_url>>, <<rm>>)
  ELSE IF ~HttpsOnly(pack.rules_url)
  THEN Outcome(st, InsecureTransport, <<>>, <<pack.manifest_url>>, <<rm>>)
  ELSE LET requests == <<pack.manifest_url, pack.rules_url>>
           resp     == <<rm, rr>>
       IN IF rr = NetFail
          THEN Outcome(st, FetchFailed, <<>>, requests, resp)
          ELSE IF ~ManifestVerified(pack, rm)
          THEN Outcome(st, Error("ValueError", "manifest SHA mismatch", pack.id),
                       <<>>, requests, resp)
          ELSE IF ~RulesVerified(pack, rr)
          THEN Outcome(st, Error("ValueError", "rules SHA mismatch", pack.id),
                       <<>>, requests, resp)
          ELSE IF k = 0
          THEN Outcome(st, Interrupted, <<>>, requests, resp)
          ELSE IF st[pack.id].kind = "file"
          THEN Outcome(st, Error("FileExistsError", "", pack.id),
                       <<>>, requests, resp)
          ELSE Outcome([st EXCEPT ![pack.id] = Written(@, k, rm, rr)],
                       IF k = Len(WriteSteps) THEN NoErr ELSE Interrupted,
                       <<>>, requests, resp)

(***************************************************************************)
(* Builtin seeding: ensure_builtin_installed.                              *)
(***************************************************************************)
\* a copy that takes manifest.json and forgets rules.json
SeedCopyManifestOnly(src) == Dir(src.manifest, Absent)

\* the copy made for one pack_dir of the builtin packs directory: both
\* files, each only if the source has it
SeedCopy(src) == Dir(src.manifest, src.rules)

\* an iteration without the dest.exists() test
SeededOver(dest, src) == IF src.kind # "dir" THEN dest ELSE SeedCopy(src)

\* the iteration for pack_dir: skipped unless it is a directory and the
\* store has nothing of that name
Seeded(dest, src) ==
  IF src.kind # "dir" THEN dest
  ELSE IF dest.kind # "none" THEN dest
  ELSE SeedCopy(src)

\* ensure_builtin_installed() over the builtin directory b
EnsureBuiltinInstalled(st, b) ==
  IF ~b.exists \/ ~b.index \/ ~b.packs_dir
  THEN st
  ELSE [id \in Ids |-> Seeded(st[id], b.packs[id])]

(***************************************************************************)
(* Inputs: descriptors, catalogs, network answers, builtin directories,    *)
(* and the stores a process may find at start-up.                          *)
(***************************************************************************)
Desc(id, v, mu, ru, sm, sr) ==
  [id |-> id, title |-> id, version |-> v, manifest_url |-> mu,
   rules_url |-> ru, sha256_manifest |-> sm, sha256_rules |-> sr]

ManifestAnswers == {M1, M2, NetFail}
RulesAnswers == {R1, R2, NetFail}

\* entries of a catalog's "packs" array
EntryA ==
  [id |-> JStr("A"), title |-> JStr("Pack A"), version |-> JStr(V110),
   manifest_url |-> JStr(UrlM), rules_url |-> JStr(UrlR),
   sha256_manifest |-> JStr(Sha256(M2)), sha256_rules |-> JStr(Sha256(R2))]
EntryAOld ==
  [id |-> JStr("A"), title |-> JStr("Pack A"), version |-> JStr(V100),
   manifest_url |-> JStr(UrlM), rules_url |-> JStr(UrlR),
   sha256_manifest |-> JStr(Sha256(M1)), sha256_rules |-> JStr(Sha256(R1))]
EntryBBeta ==
  [id |-> JStr("B"), version |-> JStr(V110beta),
   manifest_url |-> JStr(UrlM), rules_url |-> JStr(HttpR),
   sha256_manifest |-> JStr(UpperHex(Sha256(M2))),
   sha256_rules |-> JStr(UpperHex(Sha256(R2)))]
EntryBPlain ==
  [id |-> JStr("B"), title |-> JStr("Pack B"),
   manifest_url |-> JStr(UrlM), rules_url |-> JStr(UrlR),
   sha256_manifest |-> JStr(Sha256(M1)), sha256_rules |-> JStr(Sha256(R1))]
EntryNoDigest ==
  [id |-> JStr("A"), title |-> JStr("Pack A"), version |-> JStr(V110),
   manifest_url |-> JStr(UrlM), rules_url |-> JStr(UrlR),
   sha256_manifest |-> JStr(Sha256(M2))]
EntryNoId ==
  [title |-> JStr("Pack B"), version |-> JStr(V2),
   manifest_url |-> JStr(UrlM), rules_url |-> JStr(UrlR),
   sha256_manifest |-> JStr(Sha256(M2)), sha256_rules |-> JStr(Sha256(R2))]

Entries ==
  {EntryA, EntryAOld, EntryBBeta, EntryBPlain, EntryNoDigest, EntryNoId}

\* descriptors handed to install_pack: taken from a fetched catalog, or
\* built by the caller
InstallDescs ==
  {PackInfoOf(e) : e \in {EntryA, EntryAOld, EntryBBeta, EntryBPlain}}
    \cup {Desc("A", V110, HttpM, UrlR, Sha256(M2), Sha256(R2)),
          Desc("B", V110, HttpM, HttpR, Sha256(M2), Sha256(R2)),
          Desc("B", V110, UrlUpperM, UrlR, Sha256(M2), Sha256(R2)),
          Desc("B", V110, UrlM, UrlR, UpperHex(Sha256(M2)), Sha256(R2)),
          Desc("A", V110, UrlM, UrlR, Sha256(M2), UpperHex(Sha256(R2)))}

RECURSIVE SeqsUpTo(_, _)
SeqsUpTo(S, n) ==
  IF n = 0 THEN {<<>>}
  ELSE LET shorter == SeqsUpTo(S, n - 1)
       IN shorter \cup {Append(q, x) : q \in shorter, x \in S}

Catalog(packs) == Doc("index", "obj", [packs |-> packs], <<>>)

\* what the network may answer to the GET of the index
IndexAnswers ==
  {Catalog(packs) : packs \in SeqsUpTo(Entries, MaxPacks)}
    \cup {Doc("index0", "obj", [schema_version |-> JNum(1)], <<>>),
          Doc("index1", "arr", NoFields, <<>>),
          Doc("index2", "bad", NoFields, <<>>),
          NetFail}

IndexUrls == {UrlIndex, HttpIndex, FtpIndex, SpaceIndex, <<>>}

\* the answers to enumerate for a GET of url: a URL that is refused is never
\* sent, so it gets no answer
AnswersTo(url, answers) == IF HttpsOnly(url) THEN answers ELSE {NetFail}

\* version strings given to _parse_version: lists of numeric fields joined
\* by dots, the same with a pre-release or build suffix, and odd ones
FieldTexts == {<<"1">>, <<"2", "0">>}

FieldLists(n) == SeqsUpTo(FieldTexts, n) \ {<<>>}

RECURSIVE JoinDots(_)
JoinDots(fl) ==
  IF Len(fl) = 1 THEN fl[1]
  ELSE JoinDots(SubSeq(fl, 1, Len(fl) - 1)) \o <<".">> \o fl[Len(fl)]

Suffixes ==
  {<<"-", "b">>, <<"+", "b">>, <<"-", "r", "c", "1">>,
   <<"-", "b", ".", "1">>, <<"+", "sup2">>,
   <<"-", "b", ".", "c">>, <<"+", ".", "b">>}

OddVersions ==
  {<<>>, <<"a", "b", "c">>, <<" ">>, <<" ", "1", ".", "2", "\n">>,
   <<"1", ".", ".", "2">>, <<"sup2", ".", "1">>, None}

VersionTexts ==
  {JoinDots(fl) : fl \in FieldLists(MaxFields + 1)}
    \cup {JoinDots(fl) \o x : fl \in FieldLists(MaxFields), x \in Suffixes}
    \cup OddVersions

BuiltinDir(exists, index, packs_dir, a, b) ==
  [exists |-> exists, index |-> index, packs_dir |-> packs_dir,
   packs |-> [id \in Ids |-> IF id = "A" THEN a ELSE b]]

BuiltinDirs ==
  {BuiltinDir(FALSE, FALSE, FALSE, NoEntry, NoEntry),
   BuiltinDir(TRUE, FALSE, TRUE, Dir(M2, R2), NoEntry),
   BuiltinDir(TRUE, TRUE, FALSE, NoEntry, NoEntry),
   BuiltinDir(TRUE, TRUE, TRUE, Dir(M2, R2), Dir(M1, R1)),
   BuiltinDir(TRUE, TRUE, TRUE, FileEntry, Dir(M2, Absent)),
   BuiltinDir(TRUE, TRUE, TRUE, Dir(Absent, R1), NoEntry)}

\* what the store may hold under a name when the process starts: nothing,
\* a foreign file, a foreign or damaged directory, a pack installed earlier
InitEntries ==
  {NoEntry, FileEntry, Dir(M1, R1), Dir(MBad, R1),
   Dir(MNoVer, Absent), Dir(MNum, R2), Dir(MArr, Absent)}

(***************************************************************************)
(* The state machine: one caller invoking the operations one at a time     *)
(* (section 5: synchronous, run to completion, single writer).  An          *)
(* operation is called when the caller is idle; its result stays in the     *)
(* state until the caller takes it.                                         *)
(***************************************************************************)
VARIABLES
  store,      \* guidelines_dir: name -> entry
  pre,        \* the store when the last operation was called
  op,         \* the operation that has just returned, "idle" if none
  inp,        \* its argument
  ret,        \* its return value
  err,        \* the error it raised, NoErr if none
  requests,   \* the URLs it sent a GET to, in order
  resp,       \* the answers to those GETs
  steps,      \* install_pack: the file-system steps it got through
  todo        \* the update run of the caller, NoRun outside of one

vars == <<store, pre, op, inp, ret, err, requests, resp, steps, todo>>

\* an update run: the caller checks a catalog for updates, installs the
\* pending ones in order, and checks the same catalog again.  first is what
\* the first check returned, rest what is still to install, served the
\* manifests the installs fetched.
Run(phase, url, cat, first, rest, served) ==
  [phase |-> phase, url |-> url, cat |-> cat, first |-> first, rest |-> rest,
   served |-> served]

NoRun == Run("none", <<>>, NetFail, <<>>, <<>>, <<>>)

Init ==
  /\ store \in [Ids -> InitEntries]
  /\ pre = store
  /\ op = "idle"
  /\ inp = <<>>
  /\ ret = <<>>
  /\ err = NoErr
  /\ requests = <<>>
  /\ resp = <<>>
  /\ steps = 0
  /\ todo = NoRun

\* the operation name, called with arg, has had the outcome out
Result(name, arg, out, k) ==
  /\ store' = out.store
  /\ pre' = store
  /\ op' = name
  /\ inp' = arg
  /\ ret' = out.ret
  /\ err' = out.err
  /\ requests' = out.requests
  /\ resp' = out.resp
  /\ steps' = k

Finish(name, arg, out, k) ==
  /\ op = "idle"
  /\ Result(name, arg, out, k)
  /\ UNCHANGED todo

DoListInstalled ==
  Finish("list_installed", <<>>,
         Outcome(store, NoErr, ListInstalled(store), <<>>, <<>>), 0)

DoFetchIndex ==
  \E url \in IndexUrls :
  \E r \in AnswersTo(url, IndexAnswers) :
    Finish("fetch_index", url, FetchIndex(store, url, r), 0)

DoCheckUpdates ==
  \E url \in IndexUrls :
  \E r \in AnswersTo(url, IndexAnswers) :
    Finish("check_updates", url, CheckUpdates(store, url, r), 0)

DoInstallPack ==
  \E pack \in InstallDescs :
  \E rm \in AnswersTo(pack.manifest_url, ManifestAnswers) :
  \E rr \in AnswersTo(pack.rules_url, RulesAnswers) :
  \E k \in 0..Len(WriteSteps) :
    LET out == InstallPack(store, pack, rm, rr, k)
    IN Finish("install_pack", pack, out,
              IF out.err \in {NoErr, Interrupted} THEN k ELSE 0)

\* the ids asked of read_pack_rules: those of the store and an unknown one
ReadIds == Ids \cup {"C"}

DoReadPackRules ==
  \E id \in ReadIds :
    Finish("read_pack_rules", id, ReadPackRules(store, id), 0)

DoParseVersion ==
  \E v \in VersionTexts :
    Finish("parse_version", v,
           Outcome(store, NoErr, ParseVersion(v), <<>>, <<>>), 0)

DoEnsureBuiltinInstalled ==
  \E b \in BuiltinDirs :
    Finish("ensure_builtin_installed", b,
           Outcome(EnsureBuiltinInstalled(store, b), NoErr, <<>>, <<>>, <<>>), 0)

\* the caller takes the result
Return ==
  /\ op # "idle"
  /\ op' = "idle"
  /\ pre' = store
  /\ inp' = <<>>
  /\ ret' = <<>>
  /\ err' = NoErr
  /\ requests' = <<>>
  /\ resp' = <<>>
  /\ steps' = 0
  /\ UNCHANGED <<store, todo>>

Next ==
  \/ Return
  \/ DoListInstalled
  \/ DoFetchIndex
  \/ DoCheckUpdates
  \/ DoInstallPack
  \/ DoEnsureBuiltinInstalled
  \/ DoParseVersion
  \/ DoReadPackRules

Spec == Init /\ [][Next]_vars

(***************************************************************************)
(* An update run, for what check_updates and install_pack do one after the *)
(* other: nothing but the run touches the store.                           *)
(***************************************************************************)
\* a catalog entry whose version is ahead of the manifest it points to
EntryBAhead ==
  [id |-> JStr("B"), title |-> JStr("Pack B"), version |-> JStr(V2),
   manifest_url |-> JStr(UrlM), rules_url |-> JStr(UrlR),
   sha256_manifest |-> JStr(Sha256(M2)), sha256_rules |-> JStr(Sha256(R2))]

RunAnswers ==
  IndexAnswers
    \cup {Catalog(<<EntryBAhead>>), Catalog(<<EntryA, EntryBAhead>>)}

\* the first check_updates of the run
RunCheck ==
  /\ op = "idle"
  /\ todo = NoRun
  /\ \E r \in RunAnswers :
       LET out == CheckUpdates(store, UrlIndex, r)
       IN /\ Result("check_updates", UrlIndex, out, 0)
          /\ todo' = IF out.err = NoErr
                     THEN Run("installing", UrlIndex, r, out.ret, out.ret, <<>>)
                     ELSE Run("aborted", UrlIndex, r, <<>>, <<>>, <<>>)

\* install_pack of the next pending update; the run goes on if it succeeds
RunInstall ==
  /\ todo.phase = "installing"
  /\ todo.rest # <<>>
  /\ \E rm \in ManifestAnswers, rr \in RulesAnswers :
       LET pack == Head(todo.rest).pack
           out  == InstallPack(store, pack, rm, rr, Len(WriteSteps))
       IN /\ Result("install_pack", pack, out,
                    IF out.err = NoErr THEN Len(WriteSteps) ELSE 0)
          /\ todo' = IF out.err = NoErr
                     THEN [todo EXCEPT !.rest = Tail(@),
                                       !.served = Append(@, rm)]
                     ELSE [todo EXCEPT !.phase = "aborted"]

\* check_updates again, the same catalog served
RunRecheck ==
  /\ todo.phase = "installing"
  /\ todo.rest = <<>>
  /\ Result("check_updates", todo.url,
            CheckUpdates(store, todo.url, todo.cat), 0)
  /\ todo' = [todo EXCEPT !.phase = "rechecked"]

NextRun == RunCheck \/ RunInstall \/ RunRecheck

SpecRun == Init /\ [][NextRun]_vars

(***************************************************************************)
(* Properties.  Each is about the state in which an operation has just     *)
(* returned: pre is the store it was called on, store the one it left.     *)
(***************************************************************************)
\* install_pack got an answer to both GETs
BothFetched == op = "install_pack" /\ Len(resp) = 2 /\ resp[2] # NetFail

ManifestDiffers == Sha256(resp[1]) # inp.sha256_manifest
RulesDiffers == Sha256(resp[2]) # inp.sha256_rules

\* C1: when the digest of the fetched manifest bytes or of the fetched rules
\* bytes differs from the digest the descriptor declares, install_pack raises
\* an integrity error that names the pack id and the artifact that failed,
\* and the store is exactly as it was before the call.
C1_MismatchFailsAndLeavesStore ==
  (BothFetched /\ (ManifestDiffers \/ RulesDiffers)) =>
     /\ err.kind = "ValueError"
     /\ err.id = inp.id
     /\ \/ err.what = "manifest SHA mismatch" /\ ManifestDiffers
        \/ err.what = "rules SHA mismatch" /\ RulesDiffers
     /\ store = pre
     /\ steps = 0

\* a pack that is installed is asked for again, the rules answer is not the
\* declared one, and the call fails on the rules
C1_Witness ==
  /\ BothFetched
  /\ ~ManifestDiffers
  /\ RulesDiffers
  /\ err = Error("ValueError", "rules SHA mismatch", inp.id)
  /\ pre[inp.id].kind = "dir"
  /\ pre[inp.id].manifest # resp[1]

\* C2: install_pack writes to the store only after both fetched payloads
\* have verified against the descriptor's digests, and after a successful
\* install_pack the directory of the pack id holds manifest.json and
\* rules.json, both, equal to the fetched bytes that verified.
C2_WritesOnlyVerifiedBytes ==
  op = "install_pack" =>
     /\ (store # pre \/ steps > 0) =>
           (BothFetched /\ ~ManifestDiffers /\ ~RulesDiffers)
     /\ err = NoErr =>
           /\ BothFetched /\ ~ManifestDiffers /\ ~RulesDiffers
           /\ store[inp.id] = Dir(resp[1], resp[2])
           /\ resp[1] # Absent /\ resp[2] # Absent

\* a successful install that replaced both files of an installed pack
C2_Witness ==
  /\ op = "install_pack"
  /\ err = NoErr
  /\ pre[inp.id].kind = "dir"
  /\ pre[inp.id].manifest \notin {Absent, store[inp.id].manifest}
  /\ pre[inp.id].rules \notin {Absent, store[inp.id].rules}

\* install_pack was interrupted between its file-system steps
InstallInterrupted == op = "install_pack" /\ err = Interrupted

\* C3: when install_pack is interrupted between its steps, the store holds
\* either the previous installation of that id, untouched, or an incomplete
\* new one that list_installed does not report.
C3_InterruptedInstallNotReported ==
  InstallInterrupted =>
     \/ store[inp.id] = pre[inp.id]
     \/ inp.id \notin DOMAIN ListInstalled(store)

\* the scheme of url, compared without regard to case, is https
HasHttpsScheme(url) ==
  /\ Len(url) >= 8
  /\ Lower(SubSeq(url, 1, 5)) = <<"h", "t", "t", "p", "s">>
  /\ SubSeq(url, 6, 8) = <<":", "/", "/">>

\* C4: when manifest_url or rules_url is not an HTTPS URL, install_pack
\* raises the insecure-transport error, no GET has been sent for either
\* artifact, and the store is unchanged.
C4_InsecureUrlMeansNoRequest ==
  (op = "install_pack"
     /\ (~HasHttpsScheme(inp.manifest_url) \/ ~HasHttpsScheme(inp.rules_url))) =>
     /\ err = InsecureTransport
     /\ requests = <<>>
     /\ store = pre

\* C5: fetch_index of a URL whose scheme is not HTTPS raises the
\* insecure-transport error and sends no GET; a GET is only ever sent for a
\* URL that passed the scheme check.
C5_FetchIndexHttpsOnly ==
  op = "fetch_index" =>
     /\ ~HasHttpsScheme(inp) =>
           (err = InsecureTransport /\ requests = <<>> /\ resp = <<>> /\ ret = <<>>)
     /\ requests # <<>> => (HasHttpsScheme(inp) /\ requests = <<inp>>)

\* fetch_index refused a plain http URL
C5_Witness ==
  /\ op = "fetch_index"
  /\ inp = HttpIndex
  /\ err = InsecureTransport
  /\ requests = <<>>

\* the descriptors check_updates got from the catalog it fetched
RemoteOfCheck == [i \in 1..Len(resp[1].f.packs) |-> PackInfoOf(resp[1].f.packs[i])]

CheckSucceeded ==
  op = "check_updates" /\ err = NoErr /\ "packs" \in DOMAIN resp[1].f

\* the installed version a PendingUpdate for descriptor p carries, None for
\* an id that is not installed, and whether p is to be emitted at all
ExpectedInstalledVersion(p, installed) ==
  IF p.id \in DOMAIN installed THEN installed[p.id] ELSE None

IsPending(p, installed) ==
  \/ p.id \notin DOMAIN installed
  \/ /\ p.id \in DOMAIN installed
     /\ TupleGreater(ParseVersion(p.version), ParseVersion(installed[p.id]))

\* C6: check_updates emits a PendingUpdate for a remote descriptor exactly
\* when its id is not installed (no installed version attached) or its
\* parsed version is strictly greater than the parsed installed version (the
\* installed version string attached); equal and lesser versions are left
\* out.
C6_PendingExactlyMissingOrNewer ==
  CheckSucceeded =>
     LET installed == ListInstalled(pre)
         remote    == RemoteOfCheck
     IN /\ \A i \in 1..Len(remote) :
             IsPending(remote[i], installed) <=>
                \E j \in 1..Len(ret) : ret[j].pack = remote[i]
        /\ \A j \in 1..Len(ret) :
             /\ \E i \in 1..Len(remote) : remote[i] = ret[j].pack
             /\ ret[j].installed_version =
                   ExpectedInstalledVersion(ret[j].pack, installed)

\* one check that emits an upgrade of an installed pack and leaves out a
\* descriptor whose version is not greater than the installed one
C6_Witness ==
  /\ CheckSucceeded
  /\ \E j \in 1..Len(ret) : ret[j].installed_version # None
  /\ \E i \in 1..Len(RemoteOfCheck) :
       /\ RemoteOfCheck[i].id \in DOMAIN ListInstalled(pre)
       /\ \A j \in 1..Len(ret) : ret[j].pack # RemoteOfCheck[i]

\* C7: install_pack accepts a descriptor whose declared digests equal the
\* digests of the fetched payloads up to letter case.
C7_DigestCaseInsensitive ==
  (BothFetched
     /\ Lower(inp.sha256_manifest) = Lower(Sha256(resp[1]))
     /\ Lower(inp.sha256_rules) = Lower(Sha256(resp[2]))) =>
     err.what \notin {"manifest SHA mismatch", "rules SHA mismatch"}

\* C8: ensure_builtin_installed leaves every entry that the store already
\* had as it was: same manifest, same rules, same reported version.
C8_SeedNeverOverwrites ==
  op = "ensure_builtin_installed" =>
     /\ \A id \in Ids : pre[id].kind # "none" => store[id] = pre[id]
     /\ \A id \in DOMAIN ListInstalled(pre) :
          /\ id \in DOMAIN ListInstalled(store)
          /\ ListInstalled(store)[id] = ListInstalled(pre)[id]

\* seeding met an installed pack of which the builtin directory has another
\* version
C8_Witness ==
  /\ op = "ensure_builtin_installed"
  /\ inp.exists /\ inp.index /\ inp.packs_dir
  /\ \E id \in Ids :
       /\ pre[id].kind = "dir"
       /\ inp.packs[id].kind = "dir"
       /\ pre[id].manifest = M1
       /\ inp.packs[id].manifest = M2
       /\ store[id].manifest = M1

\* the manifest.json of entry e is there and is a JSON object
HoldsParsableManifest(e) ==
  /\ e.kind = "dir"
  /\ e.manifest \notin {Absent}
  /\ e.manifest.t \notin {"bad", "arr"}

\* C9: list_installed returns exactly the subdirectories of the store that
\* hold a manifest which parses, each with the text of its version field, or
\* "0.0.0" when it has none; the others are left out and do not stop the
\* scan of their siblings.
C9_ListsExactlyParsableManifests ==
  op = "list_installed" =>
     /\ err = NoErr
     /\ DOMAIN ret = {id \in Ids : HoldsParsableManifest(pre[id])}
     /\ \A id \in DOMAIN ret :
          ret[id] = IF "version" \in DOMAIN pre[id].manifest.f
                    THEN Str(pre[id].manifest.f.version)
                    ELSE <<"0", ".", "0", ".", "0">>
     /\ store = pre

\* a store with one valid pack and one directory whose manifest is corrupt
C9_Witness ==
  /\ op = "list_installed"
  /\ Cardinality(DOMAIN ret) = 1
  /\ \E id \in Ids : pre[id].kind = "dir" /\ pre[id].manifest.t = "bad"
                     /\ pre[id].manifest # Absent

C10_Required ==
  {"id", "manifest_url", "rules_url", "sha256_manifest", "sha256_rules"}

\* fetch_index received a JSON object with a "packs" array
GotCatalog ==
  /\ op = "fetch_index"
  /\ Len(resp) = 1
  /\ resp[1].t = "obj"
  /\ "packs" \in DOMAIN resp[1].f

\* C10: when an entry of the packs array lacks a required field, fetch_index
\* fails and returns no descriptor at all; when every entry has them, it
\* returns one descriptor per entry, in catalog order, title defaulting to
\* the id and version to "0.0.0".
C10_CatalogAllOrNothing ==
  GotCatalog =>
     LET packs == resp[1].f.packs
     IN IF \E i \in 1..Len(packs) : ~(C10_Required \subseteq DOMAIN packs[i])
        THEN err.kind = "KeyError" /\ ret = <<>>
        ELSE /\ err = NoErr
             /\ Len(ret) = Len(packs)
             /\ \A i \in 1..Len(packs) :
                  /\ ret[i].id = packs[i].id.v
                  /\ ret[i].title = IF "title" \in DOMAIN packs[i]
                                    THEN packs[i].title.v ELSE packs[i].id.v
                  /\ ret[i].version = IF "version" \in DOMAIN packs[i]
                                      THEN packs[i].version.v
                                      ELSE <<"0", ".", "0", ".", "0">>
                  /\ ret[i].manifest_url = packs[i].manifest_url.v
                  /\ ret[i].rules_url = packs[i].rules_url.v

\* a catalog whose first entry is complete and whose second is not
C10_WitnessMalformed ==
  /\ GotCatalog
  /\ Len(resp[1].f.packs) = 2
  /\ C10_Required \subseteq DOMAIN resp[1].f.packs[1]
  /\ ~(C10_Required \subseteq DOMAIN resp[1].f.packs[2])
  /\ err.kind = "KeyError"

\* the builtin directory has the layout ensure_builtin_installed reads
IsBuiltinSource(b) == b.exists /\ b.index /\ b.packs_dir

\* a pack of the builtin directory: a directory with both artifacts
IsBuiltinPack(e) == e.kind = "dir" /\ e.manifest # Absent /\ e.rules # Absent

\* C11: after ensure_builtin_installed, every pack of the builtin directory
\* whose name the store did not have is in the store, manifest and rules
\* both, byte for byte those of the builtin directory.
C11_SeedCopiesMissingPacks ==
  (op = "ensure_builtin_installed" /\ IsBuiltinSource(inp)) =>
     \A id \in Ids :
        (IsBuiltinPack(inp.packs[id]) /\ pre[id].kind = "none") =>
           /\ store[id].kind = "dir"
           /\ store[id].manifest = inp.packs[id].manifest
           /\ store[id].rules = inp.packs[id].rules

\* seeding brought in a pack that the store lacked, next to one it had
C11_Witness ==
  /\ op = "ensure_builtin_installed"
  /\ IsBuiltinSource(inp)
  /\ \E id \in Ids :
       /\ IsBuiltinPack(inp.packs[id])
       /\ pre[id].kind = "none"
       /\ store[id] = Dir(inp.packs[id].manifest, inp.packs[id].rules)
  /\ \E id \in Ids : pre[id].kind = "dir" /\ IsBuiltinPack(inp.packs[id])

\* the number a generated field stands for, and the triplet a list of such
\* fields stands for
NumberOf(f) == IF f = <<"1">> THEN 1 ELSE 20

ExpectedTriplet(fl) ==
  [i \in 1..3 |-> IF i <= Len(fl) THEN NumberOf(fl[i]) ELSE 0]

\* the suffix has no character that str.isdigit() accepts
IsPlainSuffix(x) ==
  \A i \in 1..Len(x) :
     x[i] \notin {"0", "1", "2", "3", "4", "5", "6", "7", "8", "9", "sup2"}

\* C12 as claimed: for every version v of up to three numeric fields and
\* every suffix x that begins with "-" or "+", _parse_version(v + x) equals
\* _parse_version(v).
C12_AnySuffixDropped ==
  op = "parse_version" =>
     \A fl \in FieldLists(MaxFields) : \A x \in Suffixes :
        inp = JoinDots(fl) \o x => ret = ParseVersion(JoinDots(fl))

\* C12 as amended: for every version v of up to three numeric fields and
\* every suffix x that begins with "-" or "+" and contains no digit (dots
\* allowed), _parse_version(v + x) equals _parse_version(v), the triplet of
\* the fields of v.
C12_PlainSuffixDropped ==
  op = "parse_version" =>
     \A fl \in FieldLists(MaxFields) : \A x \in Suffixes :
        (inp = JoinDots(fl) \o x /\ IsPlainSuffix(x)) =>
           /\ ret = ParseVersion(JoinDots(fl))
           /\ Len(fl) <= 3 => ret = ExpectedTriplet(fl)

\* "1.20-b.c" has been parsed: the suffix, dot included, left no trace
C12_Witness ==
  /\ op = "parse_version"
  /\ inp = <<"1", ".", "2", "0", "-", "b", ".", "c">>
  /\ ret = <<1, 20, 0>>

\* C13: _parse_version returns, for every version string and for None, a
\* triplet of three non-negative integers: the numeric fields in order,
\* missing trailing fields as 0, fields after the third ignored; "", "abc"
\* and None give (0, 0, 0).
C13_ParseIsTotal ==
  op = "parse_version" =>
     /\ err = NoErr
     /\ Len(ret) = 3
     /\ \A i \in 1..Len(ret) : ret[i] \in Nat
     /\ inp \in {<<>>, <<"a", "b", "c">>, None} => ret = <<0, 0, 0>>
     /\ \A fl \in FieldLists(MaxFields + 1) :
          inp = JoinDots(fl) => ret = ExpectedTriplet(fl)

\* a version of more fields than three has been parsed
C13_Witness ==
  /\ op = "parse_version"
  /\ \E fl \in FieldLists(MaxFields + 1) :
       Len(fl) > 3 /\ inp = JoinDots(fl) /\ ret = ExpectedTriplet(fl)

\* C14: the result of check_updates is a subsequence of the remote catalog:
\* its updates follow the order of their descriptors in the catalog, and a
\* catalog entry gives at most one of them.
C14_UpdatesFollowCatalogOrder ==
  CheckSucceeded =>
     \E at \in [1..Len(ret) -> 1..Len(RemoteOfCheck)] :
        /\ \A j \in 1..Len(ret) : ret[j].pack = RemoteOfCheck[at[j]]
        /\ \A j \in 1..Len(ret) : \A k \in 1..Len(ret) : j < k => at[j] < at[k]

\* two different descriptors were found pending
C14_Witness ==
  /\ CheckSucceeded
  /\ Len(ret) >= 2
  /\ ret[1].pack # ret[2].pack
  /\ ret[1].pack.id # ret[2].pack.id

\* the entry read_pack_rules was asked about, before the call
AskedEntry == IF inp \in Ids THEN pre[inp] ELSE NoEntry

\* C15: read_pack_rules returns [] and does not raise when the pack
\* directory or its rules.json is not there; for a pack whose rules.json
\* holds a sequence of rules it returns that sequence, in order; it never
\* changes the store.
C15_ReadRulesDefensive ==
  op = "read_pack_rules" =>
     /\ store = pre
     /\ (AskedEntry.kind # "dir" \/ AskedEntry.rules = Absent) =>
           (err = NoErr /\ ret = <<>>)
     /\ (AskedEntry.kind = "dir" /\ AskedEntry.rules \in {R1, R2}) =>
           /\ err = NoErr
           /\ ret = IF AskedEntry.rules = R1 THEN <<"rule1">>
                    ELSE <<"rule1", "rule2">>

\* the rules of a listed pack that has no rules.json were asked for
C15_Witness ==
  /\ op = "read_pack_rules"
  /\ inp \in Ids
  /\ pre[inp].kind = "dir"
  /\ pre[inp].manifest.t = "obj"
  /\ pre[inp].rules = Absent
  /\ ret = <<>>
  /\ err = NoErr

ReadOnlyOps ==
  {"list_installed", "read_pack_rules", "fetch_index", "check_updates"}

\* C17: list_installed, read_pack_rules, fetch_index and check_updates leave
\* the store as it was, whether they return or raise; a store that differs
\* from the one the operation was called on was changed by install_pack or
\* by ensure_builtin_installed.
C17_OnlyInstallerWrites ==
  /\ op \in ReadOnlyOps => store = pre
  /\ store # pre =>
        op \in {"install_pack", "ensure_builtin_installed"}

\* the rules of a pack that is not in the store were asked for, and the
\* store still has no entry of that name
C17_Witness ==
  /\ op = "read_pack_rules"
  /\ inp \in Ids
  /\ pre[inp].kind = "none"
  /\ store[inp].kind = "none"

\* a GET of the last operation went unanswered
SomeFetchFailed == \E i \in 1..Len(resp) : resp[i] = NetFail

\* C16: install_pack sends at most one GET for the manifest and at most one
\* for the rules, fetch_index sends exactly one GET for a URL it accepts; a
\* GET that fails is the last one the operation sends, the operation raises
\* the failure to its caller, and the store is as it was.
C16_SingleAttempt ==
  /\ Len(resp) = Len(requests)
  /\ op = "install_pack" =>
        /\ Len(requests) <= 2
        /\ Len(requests) >= 1 => requests[1] = inp.manifest_url
        /\ Len(requests) = 2 => requests[2] = inp.rules_url
  /\ op \in {"fetch_index", "check_updates"} =>
        /\ Len(requests) <= 1
        /\ HasHttpsScheme(inp) => requests = <<inp>>
  /\ (op \in {"install_pack", "fetch_index", "check_updates"}
        /\ SomeFetchFailed) =>
        /\ resp[Len(resp)] = NetFail
        /\ \A i \in 1..(Len(resp) - 1) : resp[i] # NetFail
        /\ err = FetchFailed
        /\ ret = <<>>
        /\ store = pre

\* the manifest arrived, the GET of the rules failed, and the pack that was
\* installed before is still what the store holds
C16_Witness ==
  /\ op = "install_pack"
  /\ Len(resp) = 2
  /\ resp[1] # NetFail
  /\ resp[2] = NetFail
  /\ err = FetchFailed
  /\ pre[inp.id].kind = "dir"
  /\ store = pre

\* C19: install_pack, whether it returns, raises or is interrupted, leaves
\* every entry of the store other than the one named pack.id as it was, and
\* list_installed reports for every other id what it reported before.
C19_InstallTouchesOnePack ==
  op = "install_pack" =>
     \A id \in Ids \ {inp.id} :
        /\ store[id] = pre[id]
        /\ id \in DOMAIN ListInstalled(store) <=> id \in DOMAIN ListInstalled(pre)
        /\ id \in DOMAIN ListInstalled(pre) =>
              ListInstalled(store)[id] = ListInstalled(pre)[id]

\* a pack was written next to another pack that is installed
C19_Witness ==
  /\ op = "install_pack"
  /\ store[inp.id] # pre[inp.id]
  /\ \E id \in Ids \ {inp.id} :
       /\ id \in DOMAIN ListInstalled(pre)
       /\ pre[id].rules # Absent

\* the second check of a run in which every pending update was installed
RunRechecked == todo.phase = "rechecked" /\ op = "check_updates" /\ err = NoErr

\* C18 as claimed: when every PendingUpdate of a check has been installed
\* and nothing else has changed, a new check against the same catalog
\* returns no PendingUpdate.
C18_RunConverges == RunRechecked => ret = <<>>

\* no id occurs twice among the updates
OneUpdatePerId(updates) ==
  \A i \in 1..Len(updates) : \A j \in 1..Len(updates) :
     updates[i].pack.id = updates[j].pack.id => i = j

\* the manifest fetched for an update is a JSON object whose version is not
\* behind the version the catalog gives
ServedVersionCovers(update, manifest) ==
  /\ manifest.t = "obj"
  /\ ~TupleGreater(ParseVersion(update.pack.version),
                   ParseVersion(IF "version" \in DOMAIN manifest.f
                                THEN Str(manifest.f.version)
                                ELSE <<"0", ".", "0", ".", "0">>))

\* C18 as amended: when every PendingUpdate of a check has been installed
\* and nothing else has changed, a new check against the same catalog
\* returns no PendingUpdate, provided no two of the pending updates had the
\* same id and each manifest that was installed is a JSON object whose
\* version parses to no less than the catalog's version of that pack.
C18_RunConvergesWhenConsistent ==
  (RunRechecked
     /\ OneUpdatePerId(todo.first)
     /\ \A i \in 1..Len(todo.first) :
          ServedVersionCovers(todo.first[i], todo.served[i])) =>
     ret = <<>>

\* a run that installed one new pack and upgraded another, and then found
\* nothing pending
C18_Witness ==
  /\ RunRechecked
  /\ Len(todo.first) = 2
  /\ OneUpdatePerId(todo.first)
  /\ \E i \in 1..2 : todo.first[i].installed_version = None
  /\ \E i \in 1..2 : todo.first[i].installed_version # None
  /\ ret = <<>>

====
